---- MODULE Spec2Model ----
(***************************************************************************)
(* VecMap<K, V> of vec-map (src/src/lib.rs, src/src/rayon_impl.rs): a map  *)
(* backed by one Vec<Option<V>> addressed directly by the key's index,     *)
(* with a separately kept live counter `len`.                              *)
(*                                                                         *)
(* Keys are usize (index(key) and K::from(index) are the identity there);  *)
(* slot i of the Rust vector is element i+1 of the TLA+ sequence.          *)
(* Option<T> is a sequence of length at most one: None is << >> and        *)
(* Some(x) is <<x>>.                                                       *)
(***************************************************************************)
EXTENDS Integers, Sequences, FiniteSets, TLC

\* ------------------------------------------------------------- bounds
\* keys are 0..MaxKey
MaxKey == 2
\* values are 0..MaxVal
MaxVal == 1

Keys == 0..MaxKey
Vals == 0..MaxVal
\* the counter `len` has no bound in the code; inserts stop at MaxLen here
MaxLen == MaxKey + 1
\* longest sequence of pairs given to extend and from_iter
MaxSeq == 2
\* more shrink_to_fit frames than a slot array of MaxLen slots can need
MaxFrames == MaxLen + 2

\* ------------------------------------------------------------- Option
None == << >>
Some(x) == <<x>>
is_some(o) == o /= None
is_none(o) == o = None
unwrap(o) == o[1]

\* ------------------------------------------------------------- helpers
\* slice.get(i): Some(slot) inside the vector, None outside
slot(vec, i) == IF i < Len(vec) THEN vec[i + 1] ELSE None
in_bounds(vec, i) == i < Len(vec)
Max(S) == CHOOSE x \in S : \A y \in S : y <= x
\* the indices of the occupied slots: vec.iter().enumerate().filter(is_some)
live(vec) == {i \in 0..(Len(vec) - 1) : is_some(vec[i + 1])}

\* -------------------------------------------------- VecMap, pure part
\* VecMap::new
new == [vec |-> << >>, len |-> 0]

\* fn index(key): key.clone().into()
index(key) == key

\* VecMap::clear
clear(m) == [vec |-> << >>, len |-> 0]

\* VecMap::contains_key
contains_key(m, key) == in_bounds(m.vec, index(key)) /\ is_some(m.vec[index(key) + 1])

\* VecMap::get: Option<&V>
get(m, key) == slot(m.vec, index(key))

\* VecMap::len
len(m) == m.len

\* VecMap::is_empty
is_empty(m) == m.len = 0

\* VecMap::ensure_index, a variant that adds one slot more than needed
ensure_index_overshoots(vec, i) ==
    vec \o [j \in 1..(IF i >= Len(vec) THEN i + 2 - Len(vec) ELSE 0) |-> None]

\* VecMap::ensure_index: extend with None over (vec.len() ..= index)
ensure_index(vec, i) ==
    vec \o [j \in 1..(IF i >= Len(vec) THEN i + 1 - Len(vec) ELSE 0) |-> None]

\* VecMap::get_mut, a variant that makes room for the key first
get_mut_grows(m, key) ==
    LET v1 == ensure_index(m.vec, index(key))
    IN  [map |-> [m EXCEPT !.vec = v1], out |-> slot(v1, index(key))]

\* VecMap::get_mut: Option<&mut V>, and the map behind the &mut self
get_mut(m, key) == [map |-> m, out |-> slot(m.vec, index(key))]

\* VecMap::insert, a variant that counts every insert as a new key
insert_always_counts(m, key, value) ==
    LET i   == index(key)
        v1  == ensure_index(m.vec, i)
        out == v1[i + 1]
    IN  [map |-> [vec |-> [v1 EXCEPT ![i + 1] = Some(value)], len |-> m.len + 1],
         out |-> out]

\* VecMap::insert: the new map and the returned Option<V>
insert(m, key, value) ==
    LET i   == index(key)
        v1  == ensure_index(m.vec, i)
        out == v1[i + 1]
    IN  [map |-> [vec |-> [v1 EXCEPT ![i + 1] = Some(value)],
                  len |-> IF is_none(out) THEN m.len + 1 ELSE m.len],
         out |-> out]

\* VecMap::remove, a variant that truncates the vector at the removed slot
remove_truncates(m, key) ==
    LET i   == index(key)
        out == slot(m.vec, i)
    IN  [map |-> [vec |-> IF is_some(out) THEN SubSeq(m.vec, 1, i) ELSE m.vec,
                  len |-> IF is_some(out) THEN m.len - 1 ELSE m.len],
         out |-> out]

\* VecMap::remove, a variant that forgets to clear the slot
remove_keeps_slot(m, key) ==
    LET i   == index(key)
        out == slot(m.vec, i)
    IN  [map |-> [vec |-> m.vec,
                  len |-> IF is_some(out) THEN m.len - 1 ELSE m.len],
         out |-> out]

\* VecMap::remove: the new map and the returned Option<V>
remove(m, key) ==
    LET i   == index(key)
        out == slot(m.vec, i)
    IN  [map |-> [vec |-> IF is_some(out) THEN [m.vec EXCEPT ![i + 1] = None] ELSE m.vec,
                  len |-> IF is_some(out) THEN m.len - 1 ELSE m.len],
         out |-> out]

\* the closure of retain on one live (index, value): TRUE when the slot is
\* cleared. The predicate f is the set of (key, value) pairs it accepts.
retain_clears(f, i, v) == ~(<<i, v>> \in f)

\* VecMap::retain: vec.iter_mut().enumerate().for_each(..), slot by slot in
\* index order. calls is the sequence of (key, value) pairs f was called with.
retain(m, f) ==
    LET F[n \in 0..Len(m.vec)] ==
          IF n = 0 THEN [vec |-> << >>, len |-> m.len, calls |-> << >>]
          ELSE LET p    == F[n - 1]
                   o == m.vec[n]
               IN  IF is_some(o)
                   THEN IF retain_clears(f, n - 1, unwrap(o))
                        THEN [vec   |-> Append(p.vec, None),
                              len   |-> p.len - 1,
                              calls |-> Append(p.calls, <<n - 1, unwrap(o)>>)]
                        ELSE [vec   |-> Append(p.vec, o),
                              len   |-> p.len,
                              calls |-> Append(p.calls, <<n - 1, unwrap(o)>>)]
                   ELSE [p EXCEPT !.vec = Append(p.vec, o)]
    IN  [map |-> [vec |-> F[Len(m.vec)].vec, len |-> F[Len(m.vec)].len],
         calls |-> F[Len(m.vec)].calls]

\* the scan of shrink_to_fit: the index of the last occupied slot
last_some(vec) == IF live(vec) = {} THEN None ELSE Some(Max(live(vec)))

\* Vec::drain(index + 1..): the slots up to and with index stay
drain_past(vec, i) == SubSeq(vec, 1, i + 1)

\* Vec::drain(index..), the drained slots dropped: the slots before index stay
drain(vec, i) == SubSeq(vec, 1, i)

\* VecMap::shrink_to_fit without the recursive call: one drain only
shrink_once(m) ==
    IF live(m.vec) = {} THEN m
    ELSE [m EXCEPT !.vec = SubSeq(m.vec, 1, Max(live(m.vec)))]

\* VecMap::shrink_to_fit: drain(index..) from the last live index, then again
RECURSIVE shrink_to_fit(_)
shrink_to_fit(m) ==
    IF live(m.vec) = {} THEN m
    ELSE shrink_to_fit([m EXCEPT !.vec = SubSeq(m.vec, 1, Max(live(m.vec)))])

\* PartialEq::eq: the (index, slot) sequences of the occupied slots, compared
\* element-wise by Iterator::eq
some_slots(vec) ==
    LET F[n \in 0..Len(vec)] ==
          IF n = 0 THEN << >>
          ELSE IF is_some(vec[n]) THEN Append(F[n - 1], <<n - 1, vec[n]>>)
               ELSE F[n - 1]
    IN  F[Len(vec)]

\* PartialEq::eq, a variant that compares the slot arrays and counters
eq_derived(a, b) == a.vec = b.vec /\ a.len = b.len

eq(a, b) == some_slots(a.vec) = some_slots(b.vec)

\* AtomicUsize::fetch_sub(d, Relaxed): one atomic read-modify-write
fetch_sub(n, d) == n - d

\* ------------------------------------------------------ Entry, pure part
\* Each method gives the new map, what it returns (a reference is the value
\* it points to) and whether its unwrap() met None.

\* V::default() of the value type usize
default == 0

\* VecMap::entry, a variant without the contains_key probe
entry_always_occupied(m, key) == [tag |-> "Occupied", key |-> key]

\* VecMap::entry: Occupied or Vacant by one contains_key probe
entry(m, key) ==
    [tag |-> IF contains_key(m, key) THEN "Occupied" ELSE "Vacant", key |-> key]

\* VecMap::get_mut followed by a write of w through the reference
set_value(m, key, w) == [m EXCEPT !.vec[index(key) + 1] = Some(w)]

\* OccupiedEntry::get, get_mut and into_mut: get(&key).unwrap()
occupied_get(m, key) ==
    [map |-> m, out |-> get(m, key), panic |-> is_none(get(m, key))]

\* OccupiedEntry::insert: insert(key, value).unwrap()
occupied_insert(m, key, value) ==
    LET r == insert(m, key, value)
    IN  [map |-> r.map, out |-> r.out, panic |-> is_none(r.out)]

\* OccupiedEntry::remove, a variant that reads the value and leaves it in place
occupied_remove_keeps(m, key) ==
    [map |-> m, out |-> get(m, key), panic |-> is_none(get(m, key))]

\* OccupiedEntry::remove: remove(&key).unwrap()
occupied_remove(m, key) ==
    LET r == remove(m, key)
    IN  [map |-> r.map, out |-> r.out, panic |-> is_none(r.out)]

\* OccupiedEntry::remove_entry: (key, remove(&key).unwrap())
occupied_remove_entry(m, key) ==
    LET r == remove(m, key)
    IN  [map |-> r.map,
         out |-> IF is_some(r.out) THEN Some(<<key, unwrap(r.out)>>) ELSE None,
         panic |-> is_none(r.out)]

\* VacantEntry::insert: insert(key, value); get_mut(&key).unwrap()
vacant_insert(m, key, value) ==
    LET r == insert(m, key, value)
    IN  [map |-> r.map, out |-> get(r.map, key), panic |-> is_none(get(r.map, key))]

\* Entry::or_insert, a variant that stores the default on Occupied too
or_insert_overwrites(m, e, value) ==
    LET r == vacant_insert(m, e.key, value)
    IN  [map |-> [r.map EXCEPT !.len = IF e.tag = "Occupied" THEN m.len ELSE @],
         out |-> r.out, panic |-> r.panic]

\* Entry::or_insert, or_insert_with (its closure gives value) and or_default
or_insert(m, e, value) ==
    IF e.tag = "Occupied" THEN occupied_get(m, e.key)
    ELSE vacant_insert(m, e.key, value)

\* Entry::and_modify with the function g on values: only on Occupied
and_modify(m, e, g) ==
    IF e.tag = "Occupied"
    THEN LET r == occupied_get(m, e.key)
         IN  IF r.panic THEN r
             ELSE [map |-> set_value(m, e.key, g[unwrap(r.out)]),
                   out |-> None, panic |-> FALSE]
    ELSE [map |-> m, out |-> None, panic |-> FALSE]

\* --------------------------------------------------- iterators, pure part
\* Iter, IterMut and IntoIter hold an Enumerate over the slots (here vec with
\* the unconsumed range lo..hi-1) and a copy of the map's len; Keys, Values
\* and ValuesMut wrap an Iter or IterMut.
IterKinds == {"iter", "iter_mut", "into_iter", "keys", "values", "values_mut"}

\* VecMap::iter, iter_mut, keys, values, values_mut and IntoIterator::into_iter
make_iter(kind, m) ==
    [kind |-> kind, vec |-> m.vec, lo |-> 0, hi |-> Len(m.vec), len |-> m.len]

\* what a view yields for slot i holding v: (k, v), or the projection of
\* Keys::next (k) and of Values::next, ValuesMut::next (v)
item(kind, i, v) ==
    IF kind = "keys" THEN i
    ELSE IF kind \in {"values", "values_mut"} THEN v
    ELSE <<i, v>>

Min(S) == CHOOSE x \in S : \A y \in S : x <= y

\* the occupied slots the iterator has not passed yet
ahead(i) == {j \in i.lo..(i.hi - 1) : is_some(i.vec[j + 1])}

\* Iterator::next, a variant that stops at the first empty slot
next_stops_at_hole(i) ==
    IF i.lo < i.hi /\ is_some(i.vec[i.lo + 1])
    THEN [it  |-> [i EXCEPT !.lo = i.lo + 1],
          out |-> Some(item(i.kind, i.lo, unwrap(i.vec[i.lo + 1])))]
    ELSE [it |-> [i EXCEPT !.lo = i.hi], out |-> None]

\* Iterator::next of Iter, IterMut, IntoIter: take slots from the front until
\* one is occupied
next(i) ==
    IF ahead(i) = {} THEN [it |-> [i EXCEPT !.lo = i.hi], out |-> None]
    ELSE LET j == Min(ahead(i))
         IN  [it  |-> [i EXCEPT !.lo = j + 1],
              out |-> Some(item(i.kind, j, unwrap(i.vec[j + 1])))]

\* DoubleEndedIterator::next_back, a variant that stops at the first empty slot
next_back_stops_at_hole(i) ==
    IF i.lo < i.hi /\ is_some(i.vec[i.hi])
    THEN [it  |-> [i EXCEPT !.hi = i.hi - 1],
          out |-> Some(item(i.kind, i.hi - 1, unwrap(i.vec[i.hi])))]
    ELSE [it |-> [i EXCEPT !.hi = i.lo], out |-> None]

\* DoubleEndedIterator::next_back: take slots from the back until one is occupied
next_back(i) ==
    IF ahead(i) = {} THEN [it |-> [i EXCEPT !.hi = i.lo], out |-> None]
    ELSE LET j == Max(ahead(i))
         IN  [it  |-> [i EXCEPT !.hi = j],
              out |-> Some(item(i.kind, j, unwrap(i.vec[j + 1])))]

\* Iterator::size_hint: (self.len, Some(self.len))
size_hint(i) == <<i.len, Some(i.len)>>

\* Iterator::count: self.len
count(i) == i.len

\* ------------------------------------------------------ bulk, pure part
\* Clone::clone: the slot array cloned, len copied
clone(m) == [vec |-> m.vec, len |-> m.len]

\* VecMap::with_capacity: the capacity is not part of the state
with_capacity(capacity) == [vec |-> << >>, len |-> 0]

\* Iterator::collect::<Vec<_>>: next() until it returns None
RECURSIVE collect(_)
collect(i) ==
    LET r == next(i)
    IN  IF is_none(r.out) THEN << >> ELSE <<unwrap(r.out)>> \o collect(r.it)

\* Extend::extend, a variant that does not replace the value of a present key
extend_first_wins(m, s) ==
    LET F[n \in 0..Len(s)] ==
          IF n = 0 THEN m
          ELSE IF contains_key(F[n - 1], s[n][1]) THEN F[n - 1]
               ELSE insert(F[n - 1], s[n][1], s[n][2]).map
    IN  F[Len(s)]

\* Extend::extend: for (k, v) in iter { self.insert(k, v); }
extend(m, s) ==
    LET F[n \in 0..Len(s)] ==
          IF n = 0 THEN m ELSE insert(F[n - 1], s[n][1], s[n][2]).map
    IN  F[Len(s)]

\* FromIterator::from_iter: fold of insert from with_capacity(size_hint().0)
from_iter(s) ==
    LET F[n \in 0..Len(s)] ==
          IF n = 0 THEN with_capacity(Len(s))
          ELSE insert(F[n - 1], s[n][1], s[n][2]).map
    IN  F[Len(s)]

\* ------------------------------------------------------------ state
VARIABLES
    self,      \* the map: [vec, len]
    other,     \* a second map, the right-hand side of ==
    ent,       \* the Entry borrowed from self: [tag, key]
    op,        \* the last operation and its arguments
    ret,       \* what the last operation returned
    pre,       \* self before the last operation
    it,        \* the iterator in use: [kind, vec, lo, hi, len]
    taken,     \* the items the iterator gave so far: [front, back]
    par,       \* par_retain in progress: [active, f, len, todo, dec]
    panicked,  \* an unwrap() of None aborted the program
    hist,      \* per key: the last insert/remove call on it was an insert
    stf        \* shrink_to_fit run call by call: [frames, phase]

vars == <<self, other, ent, it, taken, par, op, ret, pre, panicked, hist, stf>>

NoEntry == [tag |-> "NoEntry", key |-> 0]
NoIter == [kind |-> "none", vec |-> << >>, lo |-> 0, hi |-> 0, len |-> 0]
NoneTaken == [front |-> << >>, back |-> << >>]
NoCall == [frames |-> 0, phase |-> "idle"]
NoPar == [active |-> FALSE, f |-> {}, len |-> 0, todo |-> {}, dec |-> {}]

\* the predicates handed to retain: the sets of the live (key, value) pairs
\* they accept (retain calls f on live entries only)
entries(m) == {<<i, unwrap(m.vec[i + 1])>> : i \in live(m.vec)}
Preds(m) == SUBSET entries(m)

Init ==
    /\ self = new
    /\ other = new
    /\ ent = NoEntry
    /\ it = NoIter
    /\ taken = NoneTaken
    /\ par = NoPar
    /\ op = <<"new">>
    /\ ret = None
    /\ pre = new
    /\ panicked = FALSE
    /\ hist = [k \in Keys |-> FALSE]
    /\ stf = NoCall

\* no borrow of self is alive and the program runs
Idle ==
    /\ ent.tag = "NoEntry" /\ it.kind = "none" /\ ~par.active /\ ~panicked
    /\ stf.frames = 0

InsertOp(k, v) ==
    /\ Idle
    /\ contains_key(self, k) \/ self.len < MaxLen
    /\ LET r == insert(self, k, v)
       IN  self' = r.map /\ ret' = r.out
    /\ op' = <<"insert", k, v>>
    /\ pre' = self
    /\ UNCHANGED <<other, ent, it, taken, par, panicked>>

Insert(k, v) == InsertOp(k, v) /\ UNCHANGED <<hist, stf>>

RemoveOp(k) ==
    /\ Idle
    /\ LET r == remove(self, k)
       IN  self' = r.map /\ ret' = r.out
    /\ op' = <<"remove", k>>
    /\ pre' = self
    /\ UNCHANGED <<other, ent, it, taken, par, panicked>>

Remove(k) == RemoveOp(k) /\ UNCHANGED <<hist, stf>>

Retain(f) ==
    /\ Idle
    /\ LET r == retain(self, f)
       IN  self' = r.map /\ ret' = r.calls
    /\ op' = <<"retain", f>>
    /\ pre' = self
    /\ UNCHANGED <<other, ent, it, taken, par, panicked, hist, stf>>

\* get and contains_key borrow the map immutably
Get(k) ==
    /\ Idle
    /\ ret' = get(self, k)
    /\ op' = <<"get", k>>
    /\ pre' = self
    /\ UNCHANGED <<self, other, ent, it, taken, par, panicked, hist, stf>>

GetMut(k) ==
    /\ Idle
    /\ self' = get_mut(self, k).map
    /\ ret' = get_mut(self, k).out
    /\ op' = <<"get_mut", k>>
    /\ pre' = self
    /\ UNCHANGED <<other, ent, it, taken, par, panicked, hist, stf>>

ContainsKey(k) ==
    /\ Idle
    /\ ret' = contains_key(self, k)
    /\ op' = <<"contains_key", k>>
    /\ pre' = self
    /\ UNCHANGED <<self, other, ent, it, taken, par, panicked, hist, stf>>

Clear ==
    /\ Idle
    /\ self' = clear(self)
    /\ ret' = None
    /\ op' = <<"clear">>
    /\ pre' = self
    /\ UNCHANGED <<other, ent, it, taken, par, panicked, hist, stf>>

ShrinkToFit ==
    /\ Idle
    /\ self' = shrink_to_fit(self)
    /\ ret' = None
    /\ op' = <<"shrink_to_fit">>
    /\ pre' = self
    /\ UNCHANGED <<other, ent, it, taken, par, panicked, hist, stf>>

\* VecMap::entry: the Entry borrows self until a method consumes it
EntryOf(k) ==
    /\ Idle
    /\ ent' = entry(self, k)
    /\ op' = <<"entry", k>>
    /\ ret' = None
    /\ pre' = self
    /\ UNCHANGED <<self, other, it, taken, par, panicked, hist, stf>>

\* an Entry method with result r that leaves the entry e2 behind
EntryStep(name, r, e2) ==
    /\ ent.tag /= "NoEntry"
    /\ ~panicked
    /\ self' = r.map
    /\ ret' = r.out
    /\ panicked' = r.panic
    /\ ent' = e2
    /\ op' = name
    /\ pre' = self
    /\ UNCHANGED <<other, it, taken, par, hist, stf>>

\* room for one more key (MaxLen)
Room == ent.tag = "Occupied" \/ self.len < MaxLen

OrInsert(v) ==
    Room /\ EntryStep(<<"or_insert", ent.key, v>>, or_insert(self, ent, v), NoEntry)

\* the closure is called on Vacant only: op records whether it ran
OrInsertWith(v) ==
    Room /\ EntryStep(<<"or_insert_with", ent.key, v, ent.tag = "Vacant">>,
                      or_insert(self, ent, v), NoEntry)

OrDefault ==
    Room /\ EntryStep(<<"or_default", ent.key>>, or_insert(self, ent, default), NoEntry)

\* and_modify hands the Entry back
AndModify(g) ==
    EntryStep(<<"and_modify", ent.key, g>>, and_modify(self, ent, g), ent)

OccupiedGet ==
    /\ ent.tag = "Occupied"
    /\ EntryStep(<<"occupied_get", ent.key>>, occupied_get(self, ent.key), ent)

OccupiedInsert(v) ==
    /\ ent.tag = "Occupied"
    /\ EntryStep(<<"occupied_insert", ent.key, v>>, occupied_insert(self, ent.key, v), ent)

OccupiedIntoMut ==
    /\ ent.tag = "Occupied"
    /\ EntryStep(<<"occupied_into_mut", ent.key>>, occupied_get(self, ent.key), NoEntry)

OccupiedRemove ==
    /\ ent.tag = "Occupied"
    /\ EntryStep(<<"occupied_remove", ent.key>>, occupied_remove(self, ent.key), NoEntry)

OccupiedRemoveEntry ==
    /\ ent.tag = "Occupied"
    /\ EntryStep(<<"occupied_remove_entry", ent.key>>,
                 occupied_remove_entry(self, ent.key), NoEntry)

VacantInsert(v) ==
    /\ ent.tag = "Vacant"
    /\ Room
    /\ EntryStep(<<"vacant_insert", ent.key, v>>, vacant_insert(self, ent.key, v), NoEntry)

\* the Entry goes out of scope unused (VacantEntry::into_key, or a plain drop)
EntryDrop ==
    EntryStep(<<"entry_drop", ent.key>>, [map |-> self, out |-> None, panic |-> FALSE],
              NoEntry)

\* iter(), iter_mut(), keys(), values(), values_mut() borrow self until the
\* iterator is dropped; into_iter() moves self into the iterator, and the
\* program goes on with a fresh VecMap::new().
IterNew(kind) ==
    /\ Idle
    /\ it' = make_iter(kind, self)
    /\ taken' = NoneTaken
    /\ self' = IF kind = "into_iter" THEN new ELSE self
    /\ op' = <<kind>>
    /\ ret' = None
    /\ pre' = self
    /\ UNCHANGED <<other, ent, par, panicked, hist, stf>>

IterNext ==
    /\ it.kind /= "none"
    /\ LET r == next(it)
       IN  /\ it' = r.it
           /\ ret' = r.out
           /\ taken' = IF is_some(r.out)
                       THEN [taken EXCEPT !.front = Append(@, unwrap(r.out))]
                       ELSE taken
    /\ op' = <<"next">>
    /\ UNCHANGED <<self, other, ent, par, pre, panicked, hist, stf>>

IterNextBack ==
    /\ it.kind /= "none"
    /\ LET r == next_back(it)
       IN  /\ it' = r.it
           /\ ret' = r.out
           /\ taken' = IF is_some(r.out)
                       THEN [taken EXCEPT !.back = Append(@, unwrap(r.out))]
                       ELSE taken
    /\ op' = <<"next_back">>
    /\ UNCHANGED <<self, other, ent, par, pre, panicked, hist, stf>>

IterSizeHint ==
    /\ it.kind /= "none"
    /\ ret' = size_hint(it)
    /\ op' = <<"size_hint">>
    /\ UNCHANGED <<self, other, ent, it, taken, par, pre, panicked, hist, stf>>

\* count() consumes the iterator; op keeps the iterator it was called on
IterCount ==
    /\ it.kind /= "none"
    /\ ret' = count(it)
    /\ op' = <<"count", it>>
    /\ it' = NoIter
    /\ taken' = NoneTaken
    /\ UNCHANGED <<self, other, ent, par, pre, panicked, hist, stf>>

IterDrop ==
    /\ it.kind /= "none"
    /\ ret' = None
    /\ op' = <<"drop">>
    /\ it' = NoIter
    /\ taken' = NoneTaken
    /\ UNCHANGED <<self, other, ent, par, pre, panicked, hist, stf>>

\* par_retain: the counter becomes an AtomicUsize, then the closure runs once
\* per slot on the worker threads, in any order and interleaving: it clears
\* the slot (ParClosure) and then decrements the counter (ParFetchSub); after
\* all workers finished the counter is read back (ParRetainEnd).
ParRetainBegin(f) ==
    /\ Idle
    /\ par' = [active |-> TRUE, f |-> f, len |-> len(self),
               todo |-> 0..(Len(self.vec) - 1), dec |-> {}]
    /\ op' = <<"par_retain", f>>
    /\ ret' = None
    /\ pre' = self
    /\ UNCHANGED <<self, other, ent, it, taken, panicked, hist, stf>>

ParClosure(i) ==
    /\ par.active
    /\ i \in par.todo
    /\ LET o == self.vec[i + 1]
       IN  IF is_some(o) /\ retain_clears(par.f, i, unwrap(o))
           THEN /\ self' = [self EXCEPT !.vec[i + 1] = None]
                /\ par' = [par EXCEPT !.todo = @ \ {i}, !.dec = @ \cup {i}]
           ELSE /\ self' = self
                /\ par' = [par EXCEPT !.todo = @ \ {i}]
    /\ UNCHANGED <<other, ent, it, taken, op, ret, pre, panicked, hist, stf>>

ParFetchSub(i) ==
    /\ par.active
    /\ i \in par.dec
    /\ par' = [par EXCEPT !.len = fetch_sub(@, 1), !.dec = @ \ {i}]
    /\ UNCHANGED <<self, other, ent, it, taken, op, ret, pre, panicked, hist, stf>>

ParRetainEnd ==
    /\ par.active
    /\ par.todo = {}
    /\ par.dec = {}
    /\ self' = [self EXCEPT !.len = par.len]
    /\ par' = NoPar
    /\ op' = <<"par_retain_done", par.f>>
    /\ UNCHANGED <<other, ent, it, taken, ret, pre, panicked, hist, stf>>

\* the two operands of ==, built by insert, remove and shrink_to_fit
LeftInsert(k, v) ==
    /\ Idle
    /\ contains_key(self, k) \/ self.len < MaxLen
    /\ self' = insert(self, k, v).map
    /\ op' = <<"operand">>
    /\ ret' = None
    /\ UNCHANGED <<other, ent, it, taken, par, pre, panicked, hist, stf>>

LeftRemove(k) ==
    /\ Idle
    /\ self' = remove(self, k).map
    /\ op' = <<"operand">>
    /\ ret' = None
    /\ UNCHANGED <<other, ent, it, taken, par, pre, panicked, hist, stf>>

RightInsert(k, v) ==
    /\ Idle
    /\ contains_key(other, k) \/ other.len < MaxLen
    /\ other' = insert(other, k, v).map
    /\ op' = <<"operand">>
    /\ ret' = None
    /\ UNCHANGED <<self, ent, it, taken, par, pre, panicked, hist, stf>>

RightRemove(k) ==
    /\ Idle
    /\ other' = remove(other, k).map
    /\ op' = <<"operand">>
    /\ ret' = None
    /\ UNCHANGED <<self, ent, it, taken, par, pre, panicked, hist, stf>>

LeftShrinkToFit ==
    /\ Idle
    /\ self' = shrink_to_fit(self)
    /\ op' = <<"operand">>
    /\ ret' = None
    /\ UNCHANGED <<other, ent, it, taken, par, pre, panicked, hist, stf>>

\* self == other
Eq ==
    /\ Idle
    /\ ret' = eq(self, other)
    /\ op' = <<"eq">>
    /\ UNCHANGED <<self, other, ent, it, taken, par, pre, panicked, hist, stf>>

\* self.clone().into_iter().collect::<Vec<_>>() and then the pairs collected
\* back into a map: ret is the rebuilt map, op keeps the pairs
RoundTrip ==
    /\ Idle
    /\ LET s == collect(make_iter("into_iter", clone(self)))
       IN  /\ ret' = from_iter(s)
           /\ op' = <<"round_trip", s>>
    /\ pre' = self
    /\ UNCHANGED <<self, other, ent, it, taken, par, panicked, hist, stf>>

\* let mut other = self.clone(); other.insert(k1, v1); other.insert(k2, v2);
\* ... one call per step; op keeps the pairs inserted so far
OneByOne(k, v) ==
    /\ Idle
    /\ LET started == op[1] = "one_by_one"
           base == IF started THEN other ELSE clone(self)
           s == IF started THEN op[2] ELSE << >>
       IN  /\ Len(s) < MaxSeq
           /\ contains_key(base, k) \/ base.len < MaxLen
           /\ other' = insert(base, k, v).map
           /\ op' = <<"one_by_one", Append(s, <<k, v>>)>>
    /\ ret' = None
    /\ pre' = self
    /\ UNCHANGED <<self, ent, it, taken, par, panicked, hist, stf>>

\* self.extend(pairs), with the pairs that went into other one by one
ExtendOp ==
    /\ Idle
    /\ op[1] = "one_by_one"
    /\ self' = extend(self, op[2])
    /\ op' = <<"extend", op[2]>>
    /\ ret' = None
    /\ pre' = self
    /\ UNCHANGED <<other, ent, it, taken, par, panicked, hist, stf>>

\* self = pairs.into_iter().collect(), the one by one inserts having started
\* from VecMap::new()
FromIter ==
    /\ Idle
    /\ op[1] = "one_by_one"
    /\ self = new
    /\ self' = from_iter(op[2])
    /\ op' = <<"from_iter", op[2]>>
    /\ ret' = None
    /\ pre' = self
    /\ UNCHANGED <<other, ent, it, taken, par, panicked, hist, stf>>

\* self.remove(k), then other = self.clone()
BaseRemove(k) ==
    /\ Idle
    /\ self' = remove(self, k).map
    /\ other' = clone(self')
    /\ op' = <<"operand">>
    /\ ret' = None
    /\ pre' = self'
    /\ UNCHANGED <<ent, it, taken, par, panicked, hist, stf>>

\* shrink_to_fit call by call. The call from outside pushes the first frame.
ShrinkCall ==
    /\ Idle
    /\ stf' = [frames |-> 1, phase |-> "scan"]
    /\ op' = <<"shrink_to_fit_call">>
    /\ ret' = None
    /\ pre' = self
    /\ UNCHANGED <<self, other, ent, it, taken, par, panicked, hist>>

\* the innermost frame finds a last occupied slot, drains and calls itself
ShrinkRecurse ==
    /\ stf.phase = "scan"
    /\ stf.frames < MaxFrames
    /\ is_some(last_some(self.vec))
    /\ self' = [self EXCEPT !.vec = drain(self.vec, unwrap(last_some(self.vec)))]
    /\ stf' = [stf EXCEPT !.frames = @ + 1]
    /\ op' = <<"shrink_to_fit_recurse">>
    /\ UNCHANGED <<other, ent, it, taken, par, ret, pre, panicked, hist>>

\* a frame returns: the innermost one when it finds no occupied slot, the
\* others when their recursive call is back
ShrinkReturn ==
    /\ stf.frames > 0
    /\ stf.phase = "return" \/ is_none(last_some(self.vec))
    /\ stf' = IF stf.frames = 1 THEN NoCall
              ELSE [frames |-> stf.frames - 1, phase |-> "return"]
    /\ op' = <<"shrink_to_fit_return">>
    /\ UNCHANGED <<self, other, ent, it, taken, par, ret, pre, panicked, hist>>

Next ==
    \/ \E k \in Keys, v \in Vals : Insert(k, v)
    \/ \E k \in Keys : Remove(k)
    \/ \E f \in Preds(self) : Retain(f)
    \/ Clear
    \/ ShrinkToFit
    \/ \E k \in Keys : Get(k)
    \/ \E k \in Keys : GetMut(k)
    \/ \E k \in Keys : ContainsKey(k)
    \/ \E k \in Keys : EntryOf(k)
    \/ \E v \in Vals : OrInsert(v)
    \/ \E v \in Vals : OrInsertWith(v)
    \/ OrDefault
    \/ \E g \in [Vals -> Vals] : AndModify(g)
    \/ OccupiedGet
    \/ \E v \in Vals : OccupiedInsert(v)
    \/ OccupiedIntoMut
    \/ OccupiedRemove
    \/ OccupiedRemoveEntry
    \/ \E v \in Vals : VacantInsert(v)
    \/ EntryDrop

Spec == Init /\ [][Next]_vars

\* insert and remove only, with the history of the calls recorded per key
InsertH(k, v) ==
    InsertOp(k, v) /\ hist' = [hist EXCEPT ![k] = TRUE] /\ UNCHANGED stf

RemoveH(k) ==
    RemoveOp(k) /\ hist' = [hist EXCEPT ![k] = FALSE] /\ UNCHANGED stf

NextInsRem ==
    \/ \E k \in Keys, v \in Vals : InsertH(k, v)
    \/ \E k \in Keys : RemoveH(k)

SpecInsRem == Init /\ [][NextInsRem]_vars

\* the map operations with the iterators
NextIter ==
    \/ \E k \in Keys, v \in Vals : Insert(k, v)
    \/ \E k \in Keys : Remove(k)
    \/ \E f \in Preds(self) : Retain(f)
    \/ Clear
    \/ ShrinkToFit
    \/ \E kind \in IterKinds : IterNew(kind)
    \/ IterNext
    \/ IterNextBack
    \/ IterSizeHint
    \/ IterCount
    \/ IterDrop

SpecIter == Init /\ [][NextIter]_vars

\* as SpecIter, without shrink_to_fit
NextIterOnly ==
    \/ \E k \in Keys, v \in Vals : Insert(k, v)
    \/ \E k \in Keys : Remove(k)
    \/ \E f \in Preds(self) : Retain(f)
    \/ Clear
    \/ \E kind \in IterKinds : IterNew(kind)
    \/ IterNext
    \/ IterNextBack
    \/ IterSizeHint
    \/ IterCount
    \/ IterDrop

SpecIterOnly == Init /\ [][NextIterOnly]_vars

\* the map operations with par_retain
NextPar ==
    \/ \E k \in Keys, v \in Vals : Insert(k, v)
    \/ \E k \in Keys : Remove(k)
    \/ \E f \in Preds(self) : Retain(f)
    \/ Clear
    \/ ShrinkToFit
    \/ \E f \in Preds(self) : ParRetainBegin(f)
    \/ \E i \in Keys : ParClosure(i)
    \/ \E i \in Keys : ParFetchSub(i)
    \/ ParRetainEnd

SpecPar == Init /\ [][NextPar]_vars

\* two maps and their comparison
NextEq ==
    \/ \E k \in Keys, v \in Vals : LeftInsert(k, v)
    \/ \E k \in Keys : LeftRemove(k)
    \/ \E k \in Keys, v \in Vals : RightInsert(k, v)
    \/ \E k \in Keys : RightRemove(k)
    \/ LeftShrinkToFit
    \/ Eq

SpecEq == Init /\ [][NextEq]_vars

\* the map operations with the round trip through into_iter and collect
NextRound ==
    \/ \E k \in Keys, v \in Vals : Insert(k, v)
    \/ \E k \in Keys : Remove(k)
    \/ \E f \in Preds(self) : Retain(f)
    \/ Clear
    \/ ShrinkToFit
    \/ RoundTrip

SpecRound == Init /\ [][NextRound]_vars

\* bulk loading against the same pairs inserted one by one
NextBulk ==
    \/ \E k \in Keys, v \in Vals : OneByOne(k, v)
    \/ ExtendOp
    \/ FromIter
    \/ \E k \in Keys : BaseRemove(k)

SpecBulk == Init /\ [][NextBulk]_vars

\* insert, remove, retain, clear and the inserts and removes through an entry
NextRefine ==
    \/ \E k \in Keys, v \in Vals : Insert(k, v)
    \/ \E k \in Keys : Remove(k)
    \/ \E f \in Preds(self) : Retain(f)
    \/ Clear
    \/ \E k \in Keys : EntryOf(k)
    \/ \E v \in Vals : OccupiedInsert(v)
    \/ OccupiedRemove
    \/ OccupiedRemoveEntry
    \/ \E v \in Vals : VacantInsert(v)
    \/ EntryDrop

SpecRefine == Init /\ [][NextRefine]_vars

\* insert and remove, and shrink_to_fit one call at a time; a call that has
\* started keeps running
NextShrink ==
    \/ \E k \in Keys, v \in Vals : Insert(k, v)
    \/ \E k \in Keys : Remove(k)
    \/ ShrinkCall
    \/ ShrinkRecurse
    \/ ShrinkReturn

SpecShrink ==
    Init /\ [][NextShrink]_vars /\ WF_vars(ShrinkRecurse \/ ShrinkReturn)

\* ------------------------------------------------------------ claims
\* The counters are usize in the code and integers here: no decrement goes
\* below zero, since len (and the atomic copy of par_retain, with the
\* decrements still due) never falls below the number of occupied slots.
CountersDoNotWrap ==
    /\ self.len >= Cardinality(live(self.vec))
    /\ other.len >= Cardinality(live(other.vec))
    /\ par.active => par.len - Cardinality(par.dec) >=
                     Cardinality({i \in live(self.vec) :
                                    i \in par.todo => <<i, unwrap(self.vec[i + 1])>> \in par.f})
    /\ self.len <= MaxLen

contained(m) == {k \in Keys : contains_key(m, k)}

\* C1: in every reachable state len() is the number of keys k with
\* contains_key(k), and is_empty() holds exactly when no key is contained.
C1_LenCountsContainedKeys ==
    /\ len(self) = Cardinality(contained(self))
    /\ is_empty(self) <=> contained(self) = {}

\* C2: shrink_to_fit() leaves contains_key(k) and get(k) of every key k, and
\* len(), as they were before the call.
C2_ShrinkKeepsReachability ==
    op[1] = "shrink_to_fit" =>
        /\ \A k \in Keys : /\ contains_key(self, k) = contains_key(pre, k)
                           /\ get(self, k) = get(pre, k)
        /\ len(self) = len(pre)

\* C3: over sequences of insert and remove, contains_key(k) holds exactly
\* when the last insert/remove call on k was an insert.
C3_ContainedIffLastInserted ==
    \A k \in Keys : contains_key(self, k) <=> hist[k]

\* a key that was inserted, removed and is absent again, beside a live one
C3_Witness ==
    /\ op[1] = "remove"
    /\ is_some(ret)
    /\ ~contains_key(self, op[2])
    /\ \E k \in Keys : contains_key(self, k) /\ hist[k]

\* C4: insert(k, v) on a present key returns Some(previous value) and keeps
\* len(); on an absent key it returns None and adds one to len(); in both
\* cases get(k) is Some(v) afterwards.
C4_InsertReplace ==
    op[1] = "insert" =>
        LET k == op[2]
            v == op[3]
        IN  /\ contains_key(pre, k) =>
                 /\ is_some(ret)
                 /\ ret = get(pre, k)
                 /\ len(self) = len(pre)
            /\ ~contains_key(pre, k) =>
                 /\ ret = None
                 /\ len(self) = len(pre) + 1
            /\ get(self, k) = Some(v)

\* an insert that replaced a different value of a present key
C4_Witness ==
    /\ op[1] = "insert"
    /\ contains_key(pre, op[2])
    /\ get(pre, op[2]) /= Some(op[3])
    /\ get(self, op[2]) = Some(op[3])

\* C5: remove(k) of a present key returns Some(its value), makes k absent and
\* takes one from len(); of an absent key (also one beyond the slot array) it
\* returns None and changes nothing. No other key's value changes and the
\* slot array keeps its length.
C5_RemoveClearsOneSlot ==
    op[1] = "remove" =>
        LET k == op[2]
        IN  /\ contains_key(pre, k) =>
                 /\ is_some(ret)
                 /\ ret = get(pre, k)
                 /\ ~contains_key(self, k)
                 /\ len(self) = len(pre) - 1
            /\ ~contains_key(pre, k) =>
                 /\ ret = None
                 /\ self = pre
            /\ \A j \in Keys \ {k} : get(self, j) = get(pre, j)
            /\ Len(self.vec) = Len(pre.vec)

\* a present key was removed from below another live key
C5_Witness ==
    /\ op[1] = "remove"
    /\ is_some(ret)
    /\ \E j \in Keys : j > op[2] /\ contains_key(self, j)

\* the entries of m in iteration order: (key, value) of the occupied slots
pairs(m) == [n \in 1..Len(some_slots(m.vec)) |->
               <<some_slots(m.vec)[n][1], unwrap(some_slots(m.vec)[n][2])>>]

\* the subsequence of s whose elements are in the set S
Filter(s, S) ==
    LET F[n \in 0..Len(s)] ==
          IF n = 0 THEN << >>
          ELSE IF s[n] \in S THEN Append(F[n - 1], s[n]) ELSE F[n - 1]
    IN  F[Len(s)]

\* C7: after retain(f) the live entries are the entries from before the call
\* that f accepts, values unchanged and in the same relative order, len() is
\* their number, and f was called exactly once per live entry.
C7_RetainFilters ==
    op[1] = "retain" =>
        /\ pairs(self) = Filter(pairs(pre), op[2])
        /\ len(self) = Len(pairs(self))
        /\ ret = pairs(pre)

\* retain(f) filters the entries and takes the cleared slots from len(),
\* whatever len() was before
RetainFiltersEntries ==
    op[1] = "retain" =>
        /\ pairs(self) = Filter(pairs(pre), op[2])
        /\ len(self) = len(pre) - (Len(pairs(pre)) - Len(pairs(self)))
        /\ ret = pairs(pre)

\* the number of entries the iterator i has still to yield
remaining(i) == Cardinality(ahead(i))

\* C6: at every point of a traversal, also after next() or next_back() took
\* items, size_hint() is (n, Some(n)) and count() is n, n being the number of
\* entries the iterator has still to yield.
C6_ExactSizeHint ==
    /\ op[1] = "size_hint" => ret = <<remaining(it), Some(remaining(it))>>
    /\ op[1] = "count" => ret = remaining(op[2])

\* the elements of a finite set of numbers in ascending order
RECURSIVE ascending(_)
ascending(S) == IF S = {} THEN << >> ELSE <<Min(S)>> \o ascending(S \ {Min(S)})

\* the live entries of m by ascending key, as the view `kind` shows them
expected(kind, m) ==
    LET ks == ascending(live(m.vec))
    IN  [n \in 1..Len(ks) |-> item(kind, ks[n], unwrap(m.vec[ks[n] + 1]))]

IsPrefix(a, b) == Len(a) <= Len(b) /\ a = SubSeq(b, 1, Len(a))

C8_ParRetainAsRetain ==
    op[1] = "par_retain_done" =>
        /\ self = retain(pre, op[2]).map
        /\ pairs(self) = Filter(pairs(pre), op[2])
        /\ len(self) = Len(pairs(self))

\* par_retain(f) ends in the state of retain(f), whatever len() was before
ParRetainEqualsRetain ==
    op[1] = "par_retain_done" => self = retain(pre, op[2]).map

C11_RoundTrip ==
    op[1] = "round_trip" =>
        /\ eq(ret, pre)
        /\ len(ret) = len(pre)

\* the rebuilt map is equal (==) to the original, whatever len() was
RoundTripEqual ==
    op[1] = "round_trip" => eq(ret, pre) /\ len(ret) = Len(op[2])


\* C12: after shrink_to_fit() the slot array has no trailing empty slot: its
\* length is the highest live key + 1, or 0 when the map has no live entry.
C12_ShrinkLeavesNoTrailingEmpty ==
    op[1] = "shrink_to_fit" =>
        Len(self.vec) = IF live(self.vec) = {} THEN 0
                        ELSE Max(live(self.vec)) + 1

\* C13: shrink_to_fit() is idempotent: a second call directly after the first
\* leaves the state the first call produced.
C13_ShrinkIdempotent ==
    op[1] = "shrink_to_fit" => shrink_to_fit(self) = self

C13_Witness ==
    /\ op[1] = "shrink_to_fit"
    /\ pre = self
    /\ Len(self.vec) > 0
    /\ self.len > 0


\* the keys of a sequence of pairs, and the last value it gives to key k
keys_of(s) == {s[n][1] : n \in 1..Len(s)}
last_value(s, k) == s[Max({n \in 1..Len(s) : s[n][1] = k})][2]

\* C14: extend and from_iter/collect over a sequence of pairs produce the state
\* that inserting the pairs one by one in order produces: a repeated key keeps
\* its last value and len() grows by the number of distinct new keys.
C14_BulkAsOneByOne ==
    op[1] \in {"extend", "from_iter"} =>
        /\ self = other
        /\ \A k \in keys_of(op[2]) : get(self, k) = Some(last_value(op[2], k))
        /\ \A k \in Keys \ keys_of(op[2]) : get(self, k) = get(pre, k)
        /\ len(self) = len(pre) + Cardinality(keys_of(op[2]) \ contained(pre))
        /\ op[1] = "from_iter" => len(self) = Cardinality(keys_of(op[2]))

C14_Witness ==
    /\ op[1] = "extend"
    /\ Len(op[2]) = 2
    /\ op[2][1][1] = op[2][2][1]
    /\ op[2][1][2] # op[2][2][2]
    /\ Len(pre.vec) > 0


\* C15: get, get_mut and contains_key on a key that is out of range or whose
\* slot is empty return None / false, do not panic and leave the state (slot
\* array and len) as it was.
C15_AbsentKeyReads ==
    (op[1] \in {"get", "get_mut", "contains_key"} /\ ~contains_key(pre, op[2])) =>
        /\ op[1] \in {"get", "get_mut"} => ret = None
        /\ op[1] = "contains_key" => ret = FALSE
        /\ self = pre
        /\ ~panicked

C15_Witness ==
    /\ op[1] = "get_mut"
    /\ op[2] >= Len(pre.vec)
    /\ Len(pre.vec) > 0
    /\ ret = None


\* the default that or_insert, or_insert_with or or_default was given
default_of(o) == IF o[1] = "or_default" THEN default ELSE o[3]

\* C16: entry(k) is Occupied exactly when contains_key(k) holds. or_insert,
\* or_insert_with and or_default on a Vacant entry insert the default (len
\* +1, get(k) is the default) and return it; on an Occupied entry they leave
\* the value and len as they were, return the value, and the closure is not
\* called. and_modify changes the value only when Occupied, never inserts.
C16_EntryApi ==
    /\ op[1] = "entry" =>
           /\ ent.key = op[2]
           /\ ent.tag = "Occupied" <=> contains_key(self, op[2])
    /\ op[1] \in {"or_insert", "or_insert_with", "or_default"} =>
           /\ ~panicked
           /\ IF contains_key(pre, op[2])
              THEN /\ self = pre
                   /\ ret = get(pre, op[2])
              ELSE /\ len(self) = len(pre) + 1
                   /\ get(self, op[2]) = Some(default_of(op))
                   /\ ret = Some(default_of(op))
                   /\ \A k \in Keys \ {op[2]} : get(self, k) = get(pre, k)
           /\ op[1] = "or_insert_with" => (op[4] <=> ~contains_key(pre, op[2]))
    /\ op[1] = "and_modify" =>
           /\ ~panicked
           /\ ent.key = op[2]
           /\ IF contains_key(pre, op[2])
              THEN /\ ent.tag = "Occupied"
                   /\ get(self, op[2]) = Some(op[3][unwrap(get(pre, op[2]))])
                   /\ len(self) = len(pre)
                   /\ \A k \in Keys \ {op[2]} : get(self, k) = get(pre, k)
              ELSE /\ ent.tag = "Vacant"
                   /\ self = pre

C16_Witness ==
    /\ op[1] = "or_insert_with"
    /\ contains_key(pre, op[2])
    /\ get(pre, op[2]) # Some(op[3])
    /\ ~op[4]


Reverse(a) == [n \in 1..Len(a) |-> a[Len(a) + 1 - n]]

IsSuffix(a, b) == Len(a) <= Len(b) /\ a = SubSeq(b, Len(b) - Len(a) + 1, Len(b))

\* C17: next_back() yields the live entries by strictly descending key, the
\* reverse of the forward sequence, and next() and next_back() interleaved on
\* one iterator yield every live entry once: what came from the front is a
\* prefix of the forward sequence, what came from the back reversed is a
\* suffix, the two never overlap, and they make up all of it once either
\* call returns None.
C17_BackwardAndInterleaved ==
    it.kind \in IterKinds =>
        LET e == expected(it.kind, pre)
        IN  /\ IsPrefix(taken.front, e)
            /\ IsSuffix(Reverse(taken.back), e)
            /\ Len(taken.front) + Len(taken.back) <= Len(e)
            /\ (op[1] \in {"next", "next_back"} /\ ret = None) =>
                   taken.front \o Reverse(taken.back) = e

\* iter() ran to the end from both sides, two entries taken from the back
C17_Witness ==
    /\ it.kind = "iter"
    /\ op[1] = "next_back"
    /\ ret = None
    /\ Len(taken.front) = 1
    /\ Len(taken.back) = 2


\* the partial function a map stands for: key -> Some(value), None where
\* undefined
abs_of(m) == [k \in Keys |-> get(m, k)]

\* the operation o on a partial function a: the new function and the result
abstract(a, o) ==
    LET k == o[2]
    IN  CASE o[1] \in {"insert", "occupied_insert"} ->
               [f |-> [a EXCEPT ![k] = Some(o[3])], out |-> a[k]]
          [] o[1] \in {"remove", "occupied_remove"} ->
               [f |-> [a EXCEPT ![k] = None], out |-> a[k]]
          [] o[1] = "occupied_remove_entry" ->
               [f |-> [a EXCEPT ![k] = None],
                out |-> IF is_some(a[k]) THEN Some(<<k, unwrap(a[k])>>) ELSE None]
          [] o[1] = "vacant_insert" ->
               [f |-> [a EXCEPT ![k] = Some(o[3])], out |-> Some(o[3])]
          [] o[1] = "retain" ->
               [f |-> [j \in Keys |->
                         IF is_some(a[j]) /\ <<j, unwrap(a[j])>> \in o[2]
                         THEN a[j] ELSE None],
                out |-> {<<j, unwrap(a[j])>> : j \in {i \in Keys : is_some(a[i])}}]
          [] o[1] = "clear" ->
               [f |-> [j \in Keys |-> None], out |-> None]
          [] o[1] = "entry" ->
               [f |-> a, out |-> IF is_some(a[k]) THEN "Occupied" ELSE "Vacant"]
          [] OTHER -> [f |-> a, out |-> None]

RefinedOps ==
    {"insert", "remove", "retain", "clear", "entry", "occupied_insert",
     "occupied_remove", "occupied_remove_entry", "vacant_insert", "entry_drop"}

\* C18: the map refines a partial function from keys to values. Every insert,
\* remove, retain, clear and entry insert/remove takes the function the map
\* stood for before the call to the function the same operation gives on
\* partial functions, and returns the same result; so along any sequence of
\* these operations from the empty map get(k) is the function's value at k.
C18_RefinesPartialFunction ==
    /\ op[1] = "new" => abs_of(self) = [k \in Keys |-> None]
    /\ op[1] \in RefinedOps =>
           LET r == abstract(abs_of(pre), op)
           IN  /\ abs_of(self) = r.f
               /\ op[1] = "retain" => {ret[n] : n \in 1..Len(ret)} = r.out
               /\ op[1] = "entry" => ent.tag = r.out
               /\ op[1] \notin {"retain", "entry"} => ret = r.out

C18_Witness ==
    /\ op[1] = "occupied_remove_entry"
    /\ ret = Some(<<1, 1>>)
    /\ Len(self.vec) = 3
    /\ live(self.vec) = {2}


\* C19: an Occupied entry's key is present for as long as the entry lives, so
\* the unwrap() calls of OccupiedEntry::get, get_mut, insert, into_mut, remove,
\* remove_entry and of VacantEntry::insert find a value: no entry operation
\* panics.
C19_EntryNeverPanics ==
    /\ ~panicked
    /\ ent.tag = "Occupied" => contains_key(self, ent.key)

\* an occupied entry was written through and is still alive
C19_Witness ==
    /\ op[1] = "occupied_insert"
    /\ ent.tag = "Occupied"
    /\ ret # Some(op[3])
    /\ self.len > Cardinality(live(self.vec))

\* the calls that go through VecMap::insert
InsertCalls ==
    {"insert", "or_insert", "or_insert_with", "or_default", "occupied_insert",
     "vacant_insert"}

\* C20: the slot array never gets shorter under insert, remove, retain, get,
\* get_mut, contains_key or the entry operations; its length changes only when
\* insert is called with a key k at or beyond the current length, and is then
\* k + 1, the added slots other than k empty. Only clear and shrink_to_fit
\* may shorten it.
C20_MonotonicGrowth ==
    op[1] \notin {"new", "clear", "shrink_to_fit"} =>
        /\ Len(self.vec) >= Len(pre.vec)
        /\ IF op[1] \in InsertCalls /\ op[2] >= Len(pre.vec)
           THEN /\ Len(self.vec) = op[2] + 1
                /\ \A j \in Len(pre.vec)..(op[2] - 1) : is_none(slot(self.vec, j))
           ELSE Len(self.vec) = Len(pre.vec)

\* an insert two slots past the end of the slot array
C20_Witness ==
    /\ op[1] = "insert"
    /\ Len(pre.vec) = 1
    /\ op[2] = 2
    /\ Len(self.vec) = 3


\* C21: shrink_to_fit() terminates from every reachable map: a recursive call
\* is made only after the slot array got strictly shorter, so the calls in
\* progress beyond the first number at most the slots dropped so far (hence
\* at most the slot array's length), a map with no live entry takes no
\* recursive call, and every call that starts returns.
C21_ShrinkTerminates ==
    /\ [](stf.frames > 0 =>
            /\ stf.frames - 1 <= Len(pre.vec) - Len(self.vec)
            /\ stf.frames < MaxFrames
            /\ live(pre.vec) = {} => stf.frames = 1)
    /\ [][(stf.frames > 0 /\ stf'.frames > stf.frames) =>
              Len(self'.vec) < Len(self.vec)]_vars
    /\ (stf.frames > 0) ~> (stf.frames = 0)

\* a call on a full slot array of MaxLen slots is three recursive calls deep
C21_Witness ==
    /\ stf.frames = MaxLen + 1
    /\ stf.phase = "scan"
    /\ Len(pre.vec) = MaxLen
    /\ Len(self.vec) = 0

\* the call run frame by frame ends where shrink_to_fit taken as one step ends
ShrinkStepsAsShrinkToFit ==
    (op[1] = "shrink_to_fit_return" /\ stf.frames = 0) => self = shrink_to_fit(pre)

====
